---- MODULE Spec2Model ----
(***************************************************************************)
(* Leaf wetness estimator (src/awn_leaf_wetness.py).                       *)
(*                                                                         *)
(* The program is a chain of column assignments on a table of weather      *)
(* rows.  Floating-point numbers are modelled as decimal fixed-point       *)
(* integers: a comment "kN" says that the integer m stands for the real    *)
(* number m / 10^N.  The three non-finite floats keep their IEEE           *)
(* behaviour: NaN is unordered and absorbing, a division by zero gives an  *)
(* infinity.                                                               *)
(***************************************************************************)
EXTENDS Integers, Sequences, FiniteSets, TLC

VARIABLES config, argv, data, result, outcome, stdout, calls

vars == <<config, argv, data, result, outcome, stdout, calls>>

(***************************************************************************)
(* Float values that are not finite numbers, and a cell that holds a       *)
(* string instead of a number.                                             *)
(***************************************************************************)
PInf == 2147483647
NInf == -2147483647
NaN == 2147483646
NonNumeric == 2147483645

IsFin(a) == a # NaN /\ a # PInf /\ a # NInf

Abs(a) == IF a < 0 THEN -a ELSE a

Sgn(a) == IF a > 0 THEN 1 ELSE IF a < 0 THEN -1 ELSE 0

Pow10(k) ==
    CASE k = 0 -> 1 [] k = 1 -> 10 [] k = 2 -> 100 [] k = 3 -> 1000
      [] k = 4 -> 10000 [] k = 5 -> 100000 [] k = 6 -> 1000000
      [] k = 7 -> 10000000 [] k = 8 -> 100000000 [] k = 9 -> 1000000000

\* float comparison a > b: False when either side is NaN
Gt(a, b) == a # NaN /\ b # NaN /\ a > b

\* float comparison a < b: False when either side is NaN
Lt(a, b) == a # NaN /\ b # NaN /\ a < b

Neg(a) == IF a = NaN THEN NaN ELSE -a

\* float a + b
Add(a, b) ==
    IF a = NaN \/ b = NaN THEN NaN
    ELSE IF ~IsFin(a) THEN (IF ~IsFin(b) /\ b # a THEN NaN ELSE a)
    ELSE IF ~IsFin(b) THEN b
    ELSE a + b

\* float a - b
Sub(a, b) == Add(a, Neg(b))

\* |a| * |b| / 10^k for k <= 4, without an intermediate above 2^31
UMul(a, b, B) ==
    (a \div B) * (b \div B) * B + (a \div B) * (b % B) + (a % B) * (b \div B)
      + ((a % B) * (b % B)) \div B

\* float a * b, the product of two mantissas brought down by k decimals
MulDec(a, b, k) ==
    IF a = NaN \/ b = NaN THEN NaN
    ELSE IF ~IsFin(a) \/ ~IsFin(b)
         THEN (IF a = 0 \/ b = 0 THEN NaN ELSE Sgn(a) * Sgn(b) * PInf)
    ELSE Sgn(a) * Sgn(b) * UMul(Abs(a), Abs(b), Pow10(k))

\* long division: the quotient q and remainder r so far, k more decimals
RECURSIVE LongDiv(_, _, _, _)
LongDiv(q, r, b, k) ==
    IF k = 0 THEN q
    ELSE LongDiv(10 * q + (10 * r) \div b, (10 * r) % b, b, k - 1)

\* |a| * 10^k / |b|, without an intermediate above 2^31
UQuo(a, b, k) == LongDiv(a \div b, a % b, b, k)

\* float a / b, the quotient of two mantissas carried to k more decimals;
\* a zero divisor gives an infinity (NaN for 0/0), as numpy does
DivDec(a, b, k) ==
    IF a = NaN \/ b = NaN THEN NaN
    ELSE IF ~IsFin(a) THEN (IF ~IsFin(b) THEN NaN
                            ELSE IF b < 0 THEN -a ELSE a)
    ELSE IF ~IsFin(b) THEN 0
    ELSE IF b = 0 THEN (IF a = 0 THEN NaN ELSE Sgn(a) * PInf)
    ELSE Sgn(a) * Sgn(b) * UQuo(Abs(a), Abs(b), k)

\* a mantissa brought down by k decimals (truncating)
Down(a, k) == IF ~IsFin(a) THEN a ELSE Sgn(a) * (Abs(a) \div Pow10(k))

\* a mantissa times a finite integer factor
Times(a, n) ==
    IF a = NaN THEN NaN
    ELSE IF ~IsFin(a) THEN (IF n = 0 THEN NaN ELSE Sgn(a) * Sgn(n) * PInf)
    ELSE a * n

(***************************************************************************)
(* exp, log, sqrt and pow on finite k4 mantissas.                          *)
(***************************************************************************)
\* sum of the Taylor terms f^i / i! from term i on, f in [0, 1) k4, terms k8
RECURSIVE ExpTerms(_, _, _)
ExpTerms(f, term, i) ==
    IF term = 0 \/ i > 12 THEN 0
    ELSE term + ExpTerms(f, UMul(term, f, 10000) \div i, i + 1)

\* r * e^n, r k4
RECURSIVE ScaleE(_, _)
ScaleE(r, n) ==
    IF n = 0 THEN r
    ELSE IF n > 0 THEN ScaleE(UMul(r, 27183, 10000), n - 1)
    ELSE ScaleE(UQuo(r, 27183, 4), n + 1)

\* np.exp(x): x k4, result k4
Exp(x) ==
    IF x = NaN THEN NaN
    ELSE IF x = PInf THEN PInf
    ELSE IF x = NInf THEN 0
    ELSE LET n == x \div 10000
             f == x - n * 10000
         IN  ScaleE(ExpTerms(f, 100000000, 1) \div 10000, n)

\* 2 * (y + y^3/3 + y^5/5 + ...), y k6, from the term y^i on
RECURSIVE LnTerms(_, _, _)
LnTerms(y2, p, i) ==
    IF p = 0 \/ i > 15 THEN 0
    ELSE (2 * p) \div i + LnTerms(y2, UMul(p, y2, 10000) \div 100, i + 2)

\* ln of m * 2^n for m k4 brought into [1, 2), result k6
RECURSIVE LnReduce(_, _)
LnReduce(m, n) ==
    IF m >= 20000 THEN LnReduce(m \div 2, n + 1)
    ELSE IF m < 10000 THEN LnReduce(m * 2, n - 1)
    ELSE LET y == UQuo(m - 10000, m + 10000, 6)
         IN  n * 693147 + LnTerms(UMul(y, y, 10000) \div 100, y, 1)

\* np.log(x): x k4, result k4
Ln(x) ==
    IF x = NaN \/ x < 0 THEN NaN
    ELSE IF x = PInf THEN PInf
    ELSE IF x = 0 THEN NInf
    ELSE Down(LnReduce(x, 0), 2)

RECURSIVE ISqrt(_, _, _)
ISqrt(n, lo, hi) ==
    IF lo >= hi THEN lo
    ELSE LET mid == (lo + hi + 1) \div 2
         IN  IF mid * mid <= n THEN ISqrt(n, mid, hi) ELSE ISqrt(n, lo, mid - 1)

\* x ** 0.5: x k0, result k1; NaN for a negative x
Sqrt(x) ==
    IF x = NaN \/ x < 0 THEN NaN
    ELSE IF x = PInf THEN PInf
    ELSE ISqrt(100 * x, 0, 46340)

\* x ** 0.6: x k4, result k4; NaN for a negative x
Pow06(x) ==
    IF x = NaN \/ x < 0 THEN NaN
    ELSE IF x = PInf THEN PInf
    ELSE IF x = 0 THEN 0
    ELSE Exp((6 * Ln(x)) \div 10)

(***************************************************************************)
(* The configuration dictionary.  Each entry is the mantissa of the        *)
(* constant of the same name, at the number of decimals noted.             *)
(***************************************************************************)
Config0 ==
    [ Z_reference |-> 200,                            \* k0
      Zc |-> 150,                                     \* k0
      alpha |-> 13,                                   \* k1
      LAI |-> 288,                                    \* k2
      Wmax |-> 5,                                     \* k1
      Wf |-> 3,                                       \* k1
      shape_scale_film_cf |-> 178577,                 \* k5
      shape_scale_drop_cd |-> 423058,                 \* k5
      dimension_of_leaf_m |-> 126563,                 \* k6
      width_of_leaf_m |-> 12,                         \* k2
      n |-> 196232004,                                \* k0
      mean_length_of_pore_l |-> 25,                   \* k6
      diameter_of_pore_d |-> 623,                     \* k8
      critical_DPD |-> 18450,                         \* k4
      psychr_constant_mbar |-> 670681,                \* k6
      density_of_air_g_cm3 |-> 1225,                  \* k6
      specific_heat_of_air_Jg_C |-> 1012,             \* k3
      latent_heat_of_vaporization_J_g |-> 2450,       \* k0
      kinematic_viscosity_of_air |-> 156,             \* k7
      emissivity |-> 99,                              \* k2
      stefan_boltzmann_constant |-> 567037,           \* k13
      density_of_air_kg_m3 |-> 1293,                  \* k3
      specific_heat_of_air_J_kg_K |-> 1005,           \* k0
      diffusion_coefficient_of_water_vapor_D |-> 212, \* k7
      latent_heat_of_condensation_J_kg |-> 2257000,   \* k0
      psychrometer_constant_Pa_K |-> 245671 ]         \* k6

(***************************************************************************)
(* Scalars computed once per call from the configuration.                  *)
(***************************************************************************)
\* Zo = Z_reference * 0.1, k1
Zo == config.Z_reference * 1

\* D = 0.66 * Zc, k2
D == 66 * config.Zc

\* W = Wmax * Wf, k2
W == config.Wmax * config.Wf

\* c = Wmax * film + (1 - Wmax) * drop, k6
c ==
    config.Wmax * config.shape_scale_film_cf
      + (10 - config.Wmax) * config.shape_scale_drop_cd

\* Surface_Area = width * length, k8
Surface_Area == config.width_of_leaf_m * config.dimension_of_leaf_m

\* rS = 4 (l + pi d / 8) / (pi n d^2 D), k3
rS ==
    LET d == config.diameter_of_pore_d
        num == 4 * (config.mean_length_of_pore_l * 10000
                      + Down((314159 * d) \div 8, 3))                \* k10
        pin == Down(MulDec(314159, config.n \div 100, 4), 1)          \* k-2
        den == MulDec(MulDec(pin, d * d, 4),                          \* k10
                      config.diffusion_coefficient_of_water_vapor_D, 4) \* k13
    IN  DivDec(num, den, 6)

(***************************************************************************)
(* The table: a sequence of rows, a row a function from column names to    *)
(* cells.  The column assignments of estimate_leaf_wetness, one operator   *)
(* per assignment, each reading the columns the source line reads.         *)
(***************************************************************************)
RawColumns ==
    {"AIR_TEMP_F", "DEWPOINT_F", "WIND_SPEED_2M_MPH", "RELATIVE_HUMIDITY_%",
     "PRECIP_INCHES"}

\* (AIR_TEMP_F - 32) * 5/9, k4
AIR_TEMP_C(row) == DivDec(Times(Sub(row["AIR_TEMP_F"], 32), 5), 9, 4)

\* (DEWPOINT_F - 32) * 5/9, k4
DEWPOINT_C(row) == DivDec(Times(Sub(row["DEWPOINT_F"], 32), 5), 9, 4)

\* AIR_TEMP_C - DEWPOINT_C, k4
DPD(row) == Sub(row["AIR_TEMP_C"], row["DEWPOINT_C"])

\* 0.6108 * exp(17.27 T / (T + 237.3)), k4
SVP(row) ==
    LET T == row["AIR_TEMP_C"]
    IN  MulDec(6108, Exp(DivDec(MulDec(1727, T, 2), Add(T, 2373000), 4)), 4)

\* 4098 * SVP / (T + 237.3)^2, k6
Slope_kPa(row) ==
    LET den == Down(Add(row["AIR_TEMP_C"], 2373000), 3)   \* k1
    IN  DivDec(Times(row["SVP"], 4098), MulDec(den, den, 0), 4)

\* Slope_kPa * 10, k6
Slope_mbar(row) == Times(row["Slope_kPa"], 10)

\* SVP * (RH / 100), k4
AVP(row) == MulDec(row["SVP"], DivDec(row["RELATIVE_HUMIDITY_%"], 100, 2), 2)

\* 2682.4 * wind, k1
Uz(row) == MulDec(26824, row["WIND_SPEED_2M_MPH"], 0)

\* Uz * (log((Zc - D)/Zo) / log((Z_reference - D)/Zo))
\*    * (1 + alpha * ((1 - Zc)/Z_reference)) ** -2, k0
Uc(row) ==
    LET profile == DivDec(Ln(DivDec(config.Zc * 100 - D, Zo, 3)),
                          Ln(DivDec(config.Z_reference * 100 - D, Zo, 3)), 4) \* k4
        base == 100000
                  + config.alpha * DivDec(1 - config.Zc, config.Z_reference, 4) \* k5
        corr == DivDec(1000000000, base * base, 2)                            \* k1
    IN  MulDec(MulDec(row["Uz"], profile, 4), corr, 2)

\* c * Uc ** 0.5, k1
Transfer_Coefficient(row) == Down(MulDec(c, Sqrt(row["Uc"]), 4), 2)

\* (Slope/(Lv (Slope + psy))) * (rho cp (Transfer/Slope)) * ((SVP - AVP) * 10), k8
Ep(row) ==
    LET Sm == row["Slope_mbar"]
        t1 == DivDec(Sm,
                     Times(Down(Add(Sm, config.psychr_constant_mbar), 2),
                           config.latent_heat_of_vaporization_J_g), 7)      \* k9
        t2 == MulDec(config.density_of_air_g_cm3 * config.specific_heat_of_air_Jg_C,
                     DivDec(row["Transfer_Coefficient (cm min^-1)"], Sm, 6), 4) \* k6
        t3 == Times(Sub(row["SVP"], row["AVP"]), 10)                        \* k4
    IN  MulDec(Down(MulDec(t1, t2, 4), 3), t3, 4)

\* Ep * W, k8
E_cm_min(row) == Down(MulDec(row["Ep"], W, 0), 2)

\* the conversion without the floor for a zero or negative wind
Wind_Speed_m_s_Unfloored(row) == Times(row["WIND_SPEED_2M_MPH"], 44704)

\* 0.44704 * x if x > 0 else 0.001, k5
Wind_Speed_m_s(row) ==
    LET x == row["WIND_SPEED_2M_MPH"]
    IN  IF Gt(x, 0) THEN Times(x, 44704) ELSE 100

\* wind * leaf length / kinematic viscosity, k2
Reynolds_Number(row) ==
    DivDec(MulDec(row["Wind Speed (m/s)"], config.dimension_of_leaf_m, 4),
           config.kinematic_viscosity_of_air, 2)

\* 0.72 * Re ** 0.6, k4
Nusselt_Number(row) ==
    Down(MulDec(72, Pow06(Times(row["Reynolds Number"], 100)), 0), 2)

\* leaf length / (0.0000215 * Nu), k3
rB(row) ==
    DivDec(config.dimension_of_leaf_m,
           Down(MulDec(215, row["Nusselt Number"], 0), 2), 6)

\* 4 * emissivity * sigma * (T + 273.15) ** 3, k4
hLW(row) ==
    LET TK == Down(Add(row["AIR_TEMP_C"], 2731500), 3)                   \* k1
        cube == MulDec(MulDec(TK, TK, 0), TK, 3)                         \* k0
        coef == 4 * config.emissivity * config.stefan_boltzmann_constant \* k15
    IN  Down(MulDec(Down(coef, 4), Down(cube, 3), 0), 4)

\* (rho * cp) / rB, k4
hH(row) ==
    DivDec(config.density_of_air_kg_m3 * config.specific_heat_of_air_J_kg_K,
           row["rB (s/m)"], 4)

\* (Slope_kPa * 1000) / 273, k6
Slope_Pa_K(row) == DivDec(Times(row["Slope_kPa"], 1000), 273, 0)

\* rho * cp * (Slope_Pa_K / (psy * (rB + rS))), k4
hET(row) ==
    LET den == MulDec(config.psychrometer_constant_Pa_K,
                      Add(row["rB (s/m)"], rS), 4)                       \* k5
    IN  Down(MulDec(config.density_of_air_kg_m3 * config.specific_heat_of_air_J_kg_K,
                    DivDec(row["Slope_Pa_K"], den, 7), 4), 3)

\* hLW + hH + hET, k4
Leaf_Heat_Transfer_Coefficient(row) ==
    Add(Add(row["hLW"], row["hH"]), row["hET"])

\* h * Surface_Area * (AIR_TEMP_C - DEWPOINT_C), k6
Rhe(row) ==
    MulDec(Down(MulDec(row["Leaf Heat Transfer Coefficient (W/m^2/K)"],
                       Surface_Area, 4), 2),
           Sub(row["AIR_TEMP_C"], row["DEWPOINT_C"]), 4)

\* (Rhe / latent heat of condensation) * 1000, k11
Condensation_g_s(row) ==
    Times(DivDec(row["Rhe (J/s)"], config.latent_heat_of_condensation_J_kg, 5), 1000)

\* (g/s / (Surface_Area * 10000)) * 10 * 60 * 15 * 2, k8
\* (Surface_Area * 10000 is the mantissa of Surface_Area read at k4)
Condensation_mm(row) ==
    Times(Times(Times(Times(
        DivDec(row["Potential condensation of dew (g/s)"], Surface_Area, 1),
        10), 60), 15), 2)

\* the condensation kept whatever the dew-point depression
DewPointDepressionConstraint_Dropped(row) ==
    row["Potential condensation of dew (mm)"]

\* np.where(DPD < critical_DPD, condensation, 0)
DewPointDepressionConstraint(row) ==
    IF Lt(row["DPD"], config.critical_DPD)
    THEN row["Potential condensation of dew (mm)"]
    ELSE 0

\* an interception proportional to the rainfall, 0.6 mm per tenth of an inch
Rain_Interception_Proportional(row) ==
    IF Gt(row["PRECIP_INCHES"], 0)
    THEN Times(row["PRECIP_INCHES"], 6000000)
    ELSE 0

\* an interception of 1 mm instead of 0.6 mm
Rain_Interception_OneMillimetre(row) ==
    IF Gt(row["PRECIP_INCHES"], 0) THEN 100000000 ELSE 0

\* np.where(PRECIP_INCHES > 0, 0.6, 0), k8
Rain_Interception(row) == IF Gt(row["PRECIP_INCHES"], 0) THEN 60000000 ELSE 0

\* an evaporation added to the one a previous call left in the column
Evaporation_mm_Accumulated(row) ==
    IF "Evaporation (mm)" \in DOMAIN row
    THEN Add(row["Evaporation (mm)"], Times(Times(row["E (cm/min)"], 10), 15))
    ELSE Times(Times(row["E (cm/min)"], 10), 15)

\* E * 10 * 15, k8
Evaporation_mm(row) == Times(Times(row["E (cm/min)"], 10), 15)

\* the freezing test written AIR_TEMP_F >= 32
Estimated_Leaf_Wetness_FreezingInclusive(row) ==
    IF row["AIR_TEMP_F"] # NaN /\ row["AIR_TEMP_F"] >= 32
    THEN Sub(Add(row["Potential condensation of dew (mm)"],
                 row["Rain Interception (mm)"]),
             row["Evaporation (mm)"])
    ELSE 0

\* (condensation + rain) - evaporation if AIR_TEMP_F > 32 else 0, k8
Estimated_Leaf_Wetness(row) ==
    IF Gt(row["AIR_TEMP_F"], 32)
    THEN Sub(Add(row["Potential condensation of dew (mm)"],
                 row["Rain Interception (mm)"]),
             row["Evaporation (mm)"])
    ELSE 0

\* the wetness left as computed, without the floor at 0
NoNegativeWetness_Unclamped(row) == row["Estimated Leaf Wetness (mm)"]

\* np.where(wetness > 0, wetness, 0)
NoNegativeWetness(row) ==
    IF Gt(row["Estimated Leaf Wetness (mm)"], 0)
    THEN row["Estimated Leaf Wetness (mm)"]
    ELSE 0

(***************************************************************************)
(* The assignments in source order, each named by its source line.         *)
(***************************************************************************)
Steps ==
    <<91, 92, 93, 96, 99, 100, 103, 106, 109, 112, 115, 120, 123, 126, 129,
      132, 135, 138, 141, 144, 147, 150, 153, 154, 157, 160, 163, 166, 173>>

\* the column an assignment writes
Target(line) ==
    CASE line = 91 -> "AIR_TEMP_C"
      [] line = 92 -> "DEWPOINT_C"
      [] line = 93 -> "DPD"
      [] line = 96 -> "SVP"
      [] line = 99 -> "Slope_kPa"
      [] line = 100 -> "Slope_mbar"
      [] line = 103 -> "AVP"
      [] line = 106 -> "Uz"
      [] line = 109 -> "Uc"
      [] line = 112 -> "Transfer_Coefficient (cm min^-1)"
      [] line = 115 -> "Ep"
      [] line = 120 -> "E (cm/min)"
      [] line = 123 -> "Wind Speed (m/s)"
      [] line = 126 -> "Reynolds Number"
      [] line = 129 -> "Nusselt Number"
      [] line = 132 -> "rB (s/m)"
      [] line = 135 -> "hLW"
      [] line = 138 -> "hH"
      [] line = 141 -> "Slope_Pa_K"
      [] line = 144 -> "hET"
      [] line = 147 -> "Leaf Heat Transfer Coefficient (W/m^2/K)"
      [] line = 150 -> "Rhe (J/s)"
      [] line = 153 -> "Potential condensation of dew (g/s)"
      [] line = 154 -> "Potential condensation of dew (mm)"
      [] line = 157 -> "Potential condensation of dew (mm)"
      [] line = 160 -> "Rain Interception (mm)"
      [] line = 163 -> "Evaporation (mm)"
      [] line = 166 -> "Estimated Leaf Wetness (mm)"
      [] line = 173 -> "Estimated Leaf Wetness (mm)"

\* the value an assignment computes for one row
Value(line, row) ==
    CASE line = 91 -> AIR_TEMP_C(row)
      [] line = 92 -> DEWPOINT_C(row)
      [] line = 93 -> DPD(row)
      [] line = 96 -> SVP(row)
      [] line = 99 -> Slope_kPa(row)
      [] line = 100 -> Slope_mbar(row)
      [] line = 103 -> AVP(row)
      [] line = 106 -> Uz(row)
      [] line = 109 -> Uc(row)
      [] line = 112 -> Transfer_Coefficient(row)
      [] line = 115 -> Ep(row)
      [] line = 120 -> E_cm_min(row)
      [] line = 123 -> Wind_Speed_m_s(row)
      [] line = 126 -> Reynolds_Number(row)
      [] line = 129 -> Nusselt_Number(row)
      [] line = 132 -> rB(row)
      [] line = 135 -> hLW(row)
      [] line = 138 -> hH(row)
      [] line = 141 -> Slope_Pa_K(row)
      [] line = 144 -> hET(row)
      [] line = 147 -> Leaf_Heat_Transfer_Coefficient(row)
      [] line = 150 -> Rhe(row)
      [] line = 153 -> Condensation_g_s(row)
      [] line = 154 -> Condensation_mm(row)
      [] line = 157 -> DewPointDepressionConstraint(row)
      [] line = 160 -> Rain_Interception(row)
      [] line = 163 -> Evaporation_mm(row)
      [] line = 166 -> Estimated_Leaf_Wetness(row)
      [] line = 173 -> NoNegativeWetness(row)

\* the raw columns an assignment does arithmetic or a comparison on
RawReads(line) ==
    CASE line = 91 -> {"AIR_TEMP_F"}
      [] line = 92 -> {"DEWPOINT_F"}
      [] line = 103 -> {"RELATIVE_HUMIDITY_%"}
      [] line = 106 -> {"WIND_SPEED_2M_MPH"}
      [] line = 123 -> {"WIND_SPEED_2M_MPH"}
      [] line = 160 -> {"PRECIP_INCHES"}
      [] line = 166 -> {"AIR_TEMP_F"}
      [] OTHER -> {}

\* arithmetic on a string cell raises TypeError
Raises(line, table) ==
    \E i \in DOMAIN table : \E col \in RawReads(line) : table[i][col] = NonNumeric

\* data[column] = value: the column is added, or overwritten in place
Assign(row, col, v) == (col :> v) @@ row

\* one assignment, evaluated for every row of the table
RECURSIVE AssignColumn(_, _)
AssignColumn(table, line) ==
    IF table = <<>> THEN <<>>
    ELSE <<Assign(Head(table), Target(line), Value(line, Head(table)))>>
           \o AssignColumn(Tail(table), line)

\* the assignments from the k-th on, each over all rows, until one raises
RECURSIVE RunSteps(_, _)
RunSteps(table, k) ==
    IF k > Len(Steps) THEN [table |-> table, raised |-> FALSE]
    ELSE IF Raises(Steps[k], table) THEN [table |-> table, raised |-> TRUE]
    ELSE RunSteps(AssignColumn(table, Steps[k]), k + 1)

Published ==
    {"AIR_TEMP_F", "DEWPOINT_F", "WIND_SPEED_2M_MPH", "RELATIVE_HUMIDITY_%",
     "Potential condensation of dew (mm)", "Estimated Leaf Wetness (mm)"}

\* the records in reverse row order
ToRecords_Reversed(table) ==
    [i \in DOMAIN table |->
        [col \in Published |-> table[Len(table) + 1 - i][col]]]

\* data[[...]].to_dict(orient="records")
ToRecords(table) == [i \in DOMAIN table |-> [col \in Published |-> table[i][col]]]

\* what a call leaves behind once its assignments have run: the table as
\* enriched so far, and either the returned records or the exception
Return(run) ==
    IF run.raised
    THEN [data |-> run.table, outcome |-> "TypeError", result |-> <<>>]
    ELSE [data |-> run.table, outcome |-> "ok", result |-> ToRecords(run.table)]

\* estimate_leaf_wetness(data, config)
estimate_leaf_wetness(table) == Return(RunSteps(table, 1))

(***************************************************************************)
(* Inputs.  Temperatures in degrees F, wind in mph, humidity in percent,   *)
(* precipitation in hundredths of an inch (k2).                            *)
(***************************************************************************)
MaxRows == 2
MaxCalls == 2

Temps == {30, 32, 70}
Dews == {50, 68, 70}
Winds == {-2, 0, 5}
Humidities == {60}
Precips == {0, 10, 25}

WeatherRow(t, d, w, h, p) ==
    [col \in RawColumns |->
        CASE col = "AIR_TEMP_F" -> t
          [] col = "DEWPOINT_F" -> d
          [] col = "WIND_SPEED_2M_MPH" -> w
          [] col = "RELATIVE_HUMIDITY_%" -> h
          [] col = "PRECIP_INCHES" -> p]

NumericRows ==
    {WeatherRow(t, d, w, h, p) :
        t \in Temps, d \in Dews, w \in Winds, h \in Humidities, p \in Precips}

\* a row and the rows that differ from it in wind speed or in precipitation
\* alone: the pairs of rows that the relational properties compare
Variations(row) ==
    {[row EXCEPT !["WIND_SPEED_2M_MPH"] = w] : w \in Winds}
      \cup {[row EXCEPT !["PRECIP_INCHES"] = p] : p \in Precips}

\* tables whose rows after the first are variations of the first
VariationTables ==
    UNION {{<<row>> \o rest : rest \in [1..(n - 1) -> Variations(row)]} :
              row \in NumericRows, n \in 1..MaxRows}

\* rows with one cell missing (read as NaN) or holding a string
DefectiveRows ==
    {[WeatherRow(70, 68, 5, 60, 10) EXCEPT ![col] = NaN] : col \in RawColumns}
      \cup {[WeatherRow(70, 68, 5, 60, 10) EXCEPT ![col] = NonNumeric] :
               col \in {"AIR_TEMP_F", "PRECIP_INCHES"}}

\* tables of defective rows and a sound one
DefectiveTables ==
    UNION {[1..n -> DefectiveRows \cup {WeatherRow(70, 68, 5, 60, 10)}] :
              n \in 1..MaxRows}

InputTables == VariationTables \cup DefectiveTables

(***************************************************************************)
(* State machine.  argv is the table given on the command line, data the   *)
(* DataFrame weather_data, result the value the last call returned,        *)
(* stdout what main printed.                                               *)
(***************************************************************************)
Init ==
    /\ config = Config0
    /\ argv \in InputTables
    /\ data = <<>>
    /\ result = <<>>
    /\ outcome = "none"
    /\ stdout = <<>>
    /\ calls = 0

\* main(): read the table, estimate, print the records
Main ==
    /\ calls = 0
    /\ \E call \in {estimate_leaf_wetness(argv)} :
           /\ data' = call.data
           /\ result' = call.result
           /\ outcome' = call.outcome
           /\ stdout' = call.result
    /\ calls' = 1
    /\ UNCHANGED <<config, argv>>

\* a caller invokes estimate_leaf_wetness again on the same table object
EstimateAgain ==
    /\ calls >= 1
    /\ calls < MaxCalls
    /\ \E call \in {estimate_leaf_wetness(data)} :
           /\ data' = call.data
           /\ result' = call.result
           /\ outcome' = call.outcome
    /\ calls' = calls + 1
    /\ UNCHANGED <<config, argv, stdout>>

Next == Main \/ EstimateAgain

Spec == Init /\ [][Next]_vars

(***************************************************************************)
(* Properties.                                                             *)
(***************************************************************************)
Wetness(i) == result[i]["Estimated Leaf Wetness (mm)"]

Condensation(i) == result[i]["Potential condensation of dew (mm)"]

\* (condensation + rain interception) - evaporation of row i, before the
\* freezing test and the floor
Net(i) ==
    Sub(Add(data[i]["Potential condensation of dew (mm)"],
            data[i]["Rain Interception (mm)"]),
        data[i]["Evaporation (mm)"])

\* input rows i and j are equal in every field but col
SameExcept(i, j, col) ==
    \A other \in RawColumns \ {col} : argv[i][other] = argv[j][other]

Numeric(v) == v # NonNumeric /\ IsFin(v)

\* C1: every row with AIR_TEMP_F <= 32 has Estimated Leaf Wetness exactly 0,
\* whatever its other fields are
C1_FreezingRowsAreDry ==
    outcome = "ok" =>
        \A i \in DOMAIN result :
            (Numeric(argv[i]["AIR_TEMP_F"]) /\ argv[i]["AIR_TEMP_F"] <= 32)
                => Wetness(i) = 0

\* a row at 32 F whose condensation + rain - evaporation is positive
C1_Witness ==
    /\ outcome = "ok"
    /\ \E i \in DOMAIN result :
           /\ argv[i]["AIR_TEMP_F"] = 32
           /\ Gt(Net(i), 0)
           /\ Wetness(i) = 0

\* C2: every row's Estimated Leaf Wetness is a number >= 0, and is 0 when
\* condensation + rain interception - evaporation is not a positive number
C2_WetnessNeverNegative ==
    outcome = "ok" =>
        \A i \in DOMAIN result :
            /\ Wetness(i) # NaN
            /\ Wetness(i) >= 0
            /\ ~Gt(Net(i), 0) => Wetness(i) = 0

\* a row above freezing whose condensation + rain - evaporation is negative
C2_Witness ==
    /\ outcome = "ok"
    /\ \E i \in DOMAIN result :
           /\ Gt(argv[i]["AIR_TEMP_F"], 32)
           /\ Lt(Net(i), 0)
           /\ Wetness(i) = 0

\* C3: a row whose dew-point depression is >= critical_DPD has Potential
\* condensation of dew exactly 0; a row below critical_DPD keeps the
\* condensation computed from its g/s rate
C3_CondensationCutAtCriticalDPD ==
    outcome = "ok" =>
        \A i \in DOMAIN result :
            /\ (data[i]["DPD"] # NaN /\ data[i]["DPD"] >= config.critical_DPD)
                   => Condensation(i) = 0
            /\ Lt(data[i]["DPD"], config.critical_DPD)
                   => Condensation(i) = Condensation_mm(data[i])

\* a row at or above critical_DPD whose computed condensation is positive
C3_Witness ==
    /\ outcome = "ok"
    /\ \E i \in DOMAIN result :
           /\ Gt(data[i]["DPD"], config.critical_DPD)
           /\ Gt(Condensation_mm(data[i]), 0)
           /\ Condensation(i) = 0

\* C4: the rain interception of a row is 0.6 mm when PRECIP_INCHES > 0 and 0
\* otherwise, and two rows that differ only in their positive PRECIP_INCHES
\* have the same condensation and the same wetness
C4_RainInterceptionIsBinary ==
    outcome = "ok" =>
        /\ \A i \in DOMAIN result :
               data[i]["Rain Interception (mm)"]
                   = IF Gt(argv[i]["PRECIP_INCHES"], 0) THEN 60000000 ELSE 0
        /\ \A i, j \in DOMAIN result :
               (/\ SameExcept(i, j, "PRECIP_INCHES")
                /\ Gt(argv[i]["PRECIP_INCHES"], 0)
                /\ Gt(argv[j]["PRECIP_INCHES"], 0))
                   => /\ Condensation(i) = Condensation(j)
                      /\ Wetness(i) = Wetness(j)

\* two wet rows that differ only in the amount of rain
C4_Witness ==
    /\ outcome = "ok"
    /\ \E i, j \in DOMAIN result :
           /\ SameExcept(i, j, "PRECIP_INCHES")
           /\ Gt(argv[i]["PRECIP_INCHES"], 0)
           /\ Gt(argv[j]["PRECIP_INCHES"], argv[i]["PRECIP_INCHES"])
           /\ Wetness(i) > 0

\* rows i (rain) and j (no rain) above freezing with zero dew-point
\* depression, equal in every other field
RainOnlyPair(i, j) ==
    /\ SameExcept(i, j, "PRECIP_INCHES")
    /\ Gt(argv[i]["PRECIP_INCHES"], 0)
    /\ argv[j]["PRECIP_INCHES"] = 0
    /\ Gt(argv[i]["AIR_TEMP_F"], 32)
    /\ data[i]["DPD"] = 0

\* C5 as stated: above freezing and with zero dew-point depression, the
\* wetness with rain is at least 0.6 mm above the wetness without rain
C5_RainAddsAtLeastSixTenths ==
    outcome = "ok" =>
        \A i, j \in DOMAIN result :
            RainOnlyPair(i, j) => Wetness(i) >= Wetness(j) + 60000000

\* C5 as amended: above freezing and with zero dew-point depression, the
\* wetness with rain is never below the wetness without rain; it is exactly
\* 0.6 mm above it when the evaporation term is 0; when the evaporation term
\* is positive the dry wetness is 0 and the wetness with rain is
\* max(0, 0.6 - evaporation)
C5_RainGainReducedByEvaporation ==
    outcome = "ok" =>
        \A i, j \in DOMAIN result :
            RainOnlyPair(i, j) =>
                /\ Wetness(i) >= Wetness(j)
                /\ data[i]["Evaporation (mm)"] = 0
                       => Wetness(i) = Wetness(j) + 60000000
                /\ Gt(data[i]["Evaporation (mm)"], 0)
                       => /\ Wetness(j) = 0
                          /\ Wetness(i)
                               = IF 60000000 > data[i]["Evaporation (mm)"]
                                 THEN 60000000 - data[i]["Evaporation (mm)"]
                                 ELSE 0

\* a rain-only pair whose evaporation term is positive and whose wet row
\* keeps some water
C5_Witness ==
    /\ outcome = "ok"
    /\ \E i, j \in DOMAIN result :
           /\ RainOnlyPair(i, j)
           /\ Gt(data[i]["Evaporation (mm)"], 0)
           /\ Wetness(i) > 0

\* C6 as stated: a table with a missing or non-numeric raw field makes the
\* call fail with a DataValidationError and produce no records
C6_DefectiveInputRejected ==
    (/\ calls >= 1
     /\ \E i \in DOMAIN argv : \E col \in RawColumns : ~Numeric(argv[i][col]))
        => /\ outcome = "DataValidationError"
           /\ result = <<>>
           /\ stdout = <<>>

\* C7: one record per input row, in input order, each with exactly the six
\* published fields, the four echoed fields equal to the input row's
C7_OneRecordPerRowInOrder ==
    outcome = "ok" =>
        /\ Len(result) = Len(argv)
        /\ \A i \in DOMAIN result :
               /\ DOMAIN result[i] = Published
               /\ \A col \in Published \cap RawColumns :
                      result[i][col] = argv[i][col]

\* a returned table of different rows
C7_Witness ==
    /\ outcome = "ok"
    /\ Len(result) >= 2
    /\ \E i, j \in DOMAIN result : i < j /\ argv[i] # argv[j]

\* C8: a call on the table that an earlier call has enriched in place
\* returns the records the earlier call returned, and leaves config as it was
C8_RepeatedCallSameOutput ==
    [][(calls >= 1 /\ outcome = "ok")
          => (outcome' = "ok" /\ result' = result /\ config' = config)]_vars

\* a second call has returned a table with a wet row that also evaporates
C8_Witness ==
    /\ calls >= 2
    /\ outcome = "ok"
    /\ \E i \in DOMAIN result :
           Wetness(i) > 0 /\ Gt(data[i]["Evaporation (mm)"], 0)

\* C9: for a wind speed of 0 or below, the wind in m/s is 0.001, the
\* Reynolds number, Nusselt number and rB are positive and finite, and no
\* division by zero occurs: no column holds an infinity and, for a calm row
\* of numeric fields, every column is a finite number; for a positive wind
\* speed the wind in m/s is 0.44704 times the mph value
C9_WindFloorKeepsChainFinite ==
    outcome = "ok" =>
        \A i \in DOMAIN data :
            /\ (Numeric(argv[i]["WIND_SPEED_2M_MPH"])
                  /\ argv[i]["WIND_SPEED_2M_MPH"] <= 0)
                   => /\ data[i]["Wind Speed (m/s)"] = 100
                      /\ \A col \in {"Reynolds Number", "Nusselt Number", "rB (s/m)"} :
                             IsFin(data[i][col]) /\ data[i][col] > 0
                      /\ \A col \in DOMAIN data[i] :
                             data[i][col] # PInf /\ data[i][col] # NInf
            /\ (argv[i]["WIND_SPEED_2M_MPH"] = 0
                  /\ \A col \in RawColumns : Numeric(argv[i][col]))
                   => \A col \in DOMAIN data[i] : IsFin(data[i][col])
            /\ Gt(argv[i]["WIND_SPEED_2M_MPH"], 0)
                   => data[i]["Wind Speed (m/s)"]
                          = 44704 * argv[i]["WIND_SPEED_2M_MPH"]

\* a table with a calm row and a row of negative wind speed
C9_Witness ==
    /\ outcome = "ok"
    /\ \E i, j \in DOMAIN data :
           /\ argv[i]["WIND_SPEED_2M_MPH"] = 0
           /\ argv[j]["WIND_SPEED_2M_MPH"] < 0
           /\ data[i]["rB (s/m)"] = data[j]["rB (s/m)"]

\* C10 as stated: replacing a negative wind speed by 0 changes neither the
\* condensation nor the wetness of a row
C10_NegativeWindTreatedAsZero ==
    outcome = "ok" =>
        \A i, j \in DOMAIN result :
            (/\ SameExcept(i, j, "WIND_SPEED_2M_MPH")
             /\ Lt(argv[i]["WIND_SPEED_2M_MPH"], 0)
             /\ argv[j]["WIND_SPEED_2M_MPH"] = 0)
                => /\ Condensation(i) = Condensation(j)
                   /\ Wetness(i) = Wetness(j)

====
